---- MODULE Spec2Model ----
(***************************************************************************)
(* A model of unixpickle/splaytree: the Tree/Node heap, the recursive      *)
(* splay primitive and the public operations built on it.                  *)
(*                                                                         *)
(* Nodes live in a heap of MaxNodes cells addressed 1..MaxNodes; Nil (0)   *)
(* is Go's nil pointer.  A cell that is not reachable from Root is free    *)
(* (Go's garbage collector owns it) and is kept zeroed.  Definitions named *)
(* Mut... are faulty variants of the definition that follows them; they   *)
(* are used only to show that a property depends on that definition.      *)
(***************************************************************************)
EXTENDS Integers, Sequences, FiniteSets

\* Bounds of the model.
MaxNodes == 4
MaxVal == 2

\* The nil pointer.
Nil == 0
\* The nil interface value returned by Min/Max of the interface version.
NilValue == 0 - 1
\* The zero value of T (NumValue) returned by Min/Max of the generic version.
ZeroValue == 0

Nodes == 1..MaxNodes
\* NumValue arguments handed to the tree by the callers.
Vals == 0..MaxVal

VARIABLES
    Root,      \* Tree.Root: a node address or Nil
    heap,      \* heap[n] = the Node struct at address n: [Value, Left, Right]
    expected,  \* history: per value, Insert calls minus Delete calls made while present
    last       \* history: the last call made, its argument and what it returned

vars == <<Root, heap, expected, last>>

\* ---------------------------------------------------------------- the heap

\* A zeroed Node: a nil Value and nil links.
FreeCell == [Value |-> NilValue, Left |-> Nil, Right |-> Nil]

\* A slot is an addressable *Node variable: t.Root, or a node's Left or Right.
RootSlot == [node |-> Nil, field |-> "Root"]
LeftSlot(n) == [node |-> n, field |-> "Left"]
RightSlot(n) == [node |-> n, field |-> "Right"]

\* m is the memory: [Root, heap].
Load(m, slot) ==
    IF slot.field = "Root" THEN m.Root
    ELSE IF slot.field = "Left" THEN m.heap[slot.node].Left
    ELSE m.heap[slot.node].Right

Store(m, slot, x) ==
    IF slot.field = "Root" THEN [m EXCEPT !.Root = x]
    ELSE IF slot.field = "Left" THEN [m EXCEPT !.heap[slot.node].Left = x]
    ELSE [m EXCEPT !.heap[slot.node].Right = x]

SetLeft(m, n, x) == [m EXCEPT !.heap[n].Left = x]
SetRight(m, n, x) == [m EXCEPT !.heap[n].Right = x]

\* The nodes reachable from address r (a fixpoint, so it is defined on any heap).
RECURSIVE Closure(_, _)
Closure(h, S) ==
    LET T == S \cup {h[n].Left : n \in S} \cup {h[n].Right : n \in S}
        U == T \ {Nil}
    IN IF U = S THEN S ELSE Closure(h, U)

Reachable(h, r) == IF r = Nil THEN {} ELSE Closure(h, {r})

\* The live nodes in the order a preorder walk from the addresses on `stack`
\* first meets them (defined on any heap: a node already met is skipped).
RECURSIVE Preorder(_, _, _)
Preorder(h, stack, seen) ==
    IF stack = <<>> THEN seen
    ELSE
      LET n == Head(stack)
          rest == Tail(stack)
      IN IF n = Nil \/ \E i \in 1..Len(seen) : seen[i] = n
         THEN Preorder(h, rest, seen)
         ELSE Preorder(h, <<h[n].Left, h[n].Right>> \o rest, Append(seen, n))

\* The garbage collector: cells unreachable from Root are zeroed and free, and
\* the live nodes are compacted to the addresses 1..k in preorder.  The program
\* never looks at an address except to follow it or compare it with nil, so a
\* relocation is invisible to it.
Collect(m) ==
    LET order == Preorder(m.heap, <<m.Root>>, <<>>)
        to(n) == IF n = Nil THEN Nil ELSE CHOOSE i \in 1..Len(order) : order[i] = n
    IN [Root |-> to(m.Root),
        heap |-> [i \in Nodes |->
                    IF i <= Len(order)
                    THEN [Value |-> m.heap[order[i]].Value,
                          Left |-> to(m.heap[order[i]].Left),
                          Right |-> to(m.heap[order[i]].Right)]
                    ELSE FreeCell]]

\* &Node{Value: v}: a fresh cell, the least address the tree does not reach.
NewNode(m) == CHOOSE n \in Nodes \ Reachable(m.heap, m.Root) :
                 \A k \in Nodes \ Reachable(m.heap, m.Root) : n <= k

\* ---------------------------------------------------------------- comparison

\* Search keys: a NumValue, or one of the sentinels.
Num(x) == [kind |-> "NumValue", n |-> x]
\* Faulty sentinel: a key that compares below every value.
MutGreatestIsSmallest == [kind |-> "smallestValue", n |-> 0]

greatestValue == [kind |-> "greatestValue", n |-> 0]
smallestValue == [kind |-> "smallestValue", n |-> 0]

NumCompare(n, x) == IF n > x THEN 1 ELSE IF n < x THEN 0 - 1 ELSE 0

\* k.Compare(x) for a key k and a stored value x.
Compare(k, x) ==
    IF k.kind = "greatestValue" THEN 1
    ELSE IF k.kind = "smallestValue" THEN 0 - 1
    ELSE NumCompare(k.n, x)

\* ---------------------------------------------------------------- splay

\* The three shapes under the left child n1 of n, with *root = n.
\* Faulty zig-zag: n.Left is cleared instead of taking over n2.Right.
MutZigZagLeftDropsSubtree(m1, root, n, n1) ==
    LET n2 == m1.heap[n1].Right
        a == SetLeft(m1, n, Nil)
        b == SetRight(a, n2, n)
        c == SetRight(b, n1, b.heap[n2].Left)
        d == SetLeft(c, n2, n1)
    IN Store(d, root, n2)

ZigZagLeft(m1, root, n, n1) ==
    LET n2 == m1.heap[n1].Right
        a == SetLeft(m1, n, m1.heap[n2].Right)
        b == SetRight(a, n2, n)
        c == SetRight(b, n1, b.heap[n2].Left)
        d == SetLeft(c, n2, n1)
    IN Store(d, root, n2)

ZigZigLeft(m1, root, n, n1) ==
    LET n2 == m1.heap[n1].Left
        a == SetLeft(m1, n, m1.heap[n1].Right)
        b == SetRight(a, n1, n)
        c == SetLeft(b, n1, b.heap[n2].Right)
        d == SetRight(c, n2, n1)
    IN Store(d, root, n2)

\* Faulty zig: the slot is not rewritten, so n stays the root.
MutZigLeftKeepsRoot(m, root, n, n1) ==
    LET b == SetLeft(m, n, m.heap[n1].Right)
    IN SetRight(b, n1, n)

ZigLeft(m, root, n, n1) ==
    LET a == Store(m, root, n1)
        b == SetLeft(a, n, a.heap[n1].Right)
    IN SetRight(b, n1, n)

\* The mirrored shapes under the right child n1 of n.
ZigZagRight(m1, root, n, n1) ==
    LET n2 == m1.heap[n1].Left
        a == SetRight(m1, n, m1.heap[n2].Left)
        b == SetLeft(a, n2, n)
        c == SetLeft(b, n1, b.heap[n2].Right)
        d == SetRight(c, n2, n1)
    IN Store(d, root, n2)

\* Faulty zig-zig: n1, not n2, is written to the slot.
MutZigZigRightRootsN1(m1, root, n, n1) ==
    LET n2 == m1.heap[n1].Right
        a == SetRight(m1, n, m1.heap[n1].Left)
        b == SetLeft(a, n1, n)
        c == SetRight(b, n1, b.heap[n2].Left)
        d == SetLeft(c, n2, n1)
    IN Store(d, root, n1)

ZigZigRight(m1, root, n, n1) ==
    LET n2 == m1.heap[n1].Right
        a == SetRight(m1, n, m1.heap[n1].Left)
        b == SetLeft(a, n1, n)
        c == SetRight(b, n1, b.heap[n2].Left)
        d == SetLeft(c, n2, n1)
    IN Store(d, root, n2)

\* Faulty zig: n.Right is cleared instead of taking over n1.Left.
MutZigRightDropsSubtree(m, root, n, n1) ==
    LET a == Store(m, root, n1)
        b == SetRight(a, n, Nil)
    IN SetLeft(b, n1, n)

ZigRight(m, root, n, n1) ==
    LET a == Store(m, root, n1)
        b == SetRight(a, n, a.heap[n1].Left)
    IN SetLeft(b, n1, n)

\* splay(root, v): the memory after the call.
RECURSIVE splay(_, _, _)
splay(m, root, v) ==
    IF Load(m, root) = Nil THEN m
    ELSE
      LET n == Load(m, root)
          comparison == Compare(v, m.heap[n].Value)
      IN IF comparison < 0 THEN
           IF m.heap[n].Left = Nil THEN m
           ELSE
             LET n1 == m.heap[n].Left
                 c1 == Compare(v, m.heap[n1].Value)
             IN IF c1 > 0 /\ m.heap[n1].Right # Nil THEN
                  ZigZagLeft(splay(m, RightSlot(n1), v), root, n, n1)
                ELSE IF c1 < 0 /\ m.heap[n1].Left # Nil THEN
                  ZigZigLeft(splay(m, LeftSlot(n1), v), root, n, n1)
                ELSE ZigLeft(m, root, n, n1)
         ELSE IF comparison > 0 THEN
           IF m.heap[n].Right = Nil THEN m
           ELSE
             LET n1 == m.heap[n].Right
                 c1 == Compare(v, m.heap[n1].Value)
             IN IF c1 < 0 /\ m.heap[n1].Left # Nil THEN
                  ZigZagRight(splay(m, LeftSlot(n1), v), root, n, n1)
                ELSE IF c1 > 0 /\ m.heap[n1].Right # Nil THEN
                  ZigZigRight(splay(m, RightSlot(n1), v), root, n, n1)
                ELSE ZigRight(m, root, n, n1)
         ELSE m

\* ---------------------------------------------------------------- Insert, Delete

\* Faulty Insert: the tree is not splayed before the new root is linked in.
MutInsertMemNoSplay(m, v) ==
    IF m.Root = Nil THEN
      LET newNode == NewNode(m)
      IN [Root |-> newNode,
          heap |-> [m.heap EXCEPT ![newNode] = [Value |-> v, Left |-> Nil, Right |-> Nil]]]
    ELSE
      LET comparison == Compare(Num(v), m.heap[m.Root].Value)
          newNode == NewNode(m)
          a == [m EXCEPT !.heap[newNode] = [Value |-> v, Left |-> Nil, Right |-> Nil]]
          b == IF comparison < 0 THEN
                 SetRight(SetLeft(SetLeft(a, newNode, a.heap[a.Root].Left),
                                  a.Root, Nil),
                          newNode, a.Root)
               ELSE IF comparison > 0 THEN
                 SetLeft(SetRight(SetRight(a, newNode, a.heap[a.Root].Right),
                                  a.Root, Nil),
                         newNode, a.Root)
               ELSE
                 SetLeft(SetRight(SetLeft(a, newNode, a.heap[a.Root].Left),
                                  newNode, a.Root),
                         a.Root, Nil)
      IN [b EXCEPT !.Root = newNode]

\* Faulty Insert: the old root keeps its Left link where the code clears it.
MutInsertMemKeepsLeft(m, v) ==
    IF m.Root = Nil THEN
      LET newNode == NewNode(m)
      IN [Root |-> newNode,
          heap |-> [m.heap EXCEPT ![newNode] = [Value |-> v, Left |-> Nil, Right |-> Nil]]]
    ELSE
      LET s == splay(m, RootSlot, Num(v))
          comparison == Compare(Num(v), s.heap[s.Root].Value)
          newNode == NewNode(s)
          a == [s EXCEPT !.heap[newNode] = [Value |-> v, Left |-> Nil, Right |-> Nil]]
          b == IF comparison < 0 THEN
                 SetRight(SetLeft(a, newNode, a.heap[a.Root].Left), newNode, a.Root)
               ELSE IF comparison > 0 THEN
                 SetLeft(SetRight(SetRight(a, newNode, a.heap[a.Root].Right),
                                  a.Root, Nil),
                         newNode, a.Root)
               ELSE
                 SetRight(SetLeft(a, newNode, a.heap[a.Root].Left), newNode, a.Root)
      IN [b EXCEPT !.Root = newNode]

\* The memory after t.Insert(v).
InsertMem(m, v) ==
    IF m.Root = Nil THEN
      LET newNode == NewNode(m)
      IN [Root |-> newNode,
          heap |-> [m.heap EXCEPT ![newNode] = [Value |-> v, Left |-> Nil, Right |-> Nil]]]
    ELSE
      LET s == splay(m, RootSlot, Num(v))
          comparison == Compare(Num(v), s.heap[s.Root].Value)
          newNode == NewNode(s)
          a == [s EXCEPT !.heap[newNode] = [Value |-> v, Left |-> Nil, Right |-> Nil]]
          b == IF comparison < 0 THEN
                 SetRight(SetLeft(SetLeft(a, newNode, a.heap[a.Root].Left),
                                  a.Root, Nil),
                          newNode, a.Root)
               ELSE IF comparison > 0 THEN
                 SetLeft(SetRight(SetRight(a, newNode, a.heap[a.Root].Right),
                                  a.Root, Nil),
                         newNode, a.Root)
               ELSE
                 SetLeft(SetRight(SetLeft(a, newNode, a.heap[a.Root].Left),
                                  newNode, a.Root),
                         a.Root, Nil)
      IN [b EXCEPT !.Root = newNode]

\* Faulty Delete: the old root's right subtree is not attached to the new root.
MutDeleteMemDropsRight(m, v) ==
    IF m.Root = Nil THEN m
    ELSE
      LET s == splay(m, RootSlot, Num(v))
      IN IF Compare(Num(v), s.heap[s.Root].Value) # 0 THEN s
         ELSE IF s.heap[s.Root].Left = Nil THEN
           [s EXCEPT !.Root = s.heap[s.Root].Right]
         ELSE
           LET a == splay(s, LeftSlot(s.Root), greatestValue)
           IN [a EXCEPT !.Root = a.heap[a.Root].Left]

\* Faulty Delete: the tree is not splayed toward v before the root is compared.
MutDeleteMemNoSplay(m, v) ==
    IF m.Root = Nil THEN m
    ELSE
      LET s == m
      IN IF Compare(Num(v), s.heap[s.Root].Value) # 0 THEN s
         ELSE IF s.heap[s.Root].Left = Nil THEN
           [s EXCEPT !.Root = s.heap[s.Root].Right]
         ELSE
           LET a == splay(s, LeftSlot(s.Root), greatestValue)
               b == SetRight(a, a.heap[a.Root].Left, a.heap[a.Root].Right)
           IN [b EXCEPT !.Root = b.heap[b.Root].Left]

\* Faulty Delete: a root without a left child is replaced by that (nil) left child.
MutDeleteMemTakesLeft(m, v) ==
    IF m.Root = Nil THEN m
    ELSE
      LET s == splay(m, RootSlot, Num(v))
      IN IF Compare(Num(v), s.heap[s.Root].Value) # 0 THEN s
         ELSE IF s.heap[s.Root].Left = Nil THEN
           [s EXCEPT !.Root = s.heap[s.Root].Left]
         ELSE
           LET a == splay(s, LeftSlot(s.Root), greatestValue)
               b == SetRight(a, a.heap[a.Root].Left, a.heap[a.Root].Right)
           IN [b EXCEPT !.Root = b.heap[b.Root].Left]

\* The memory after t.Delete(v).
DeleteMem(m, v) ==
    IF m.Root = Nil THEN m
    ELSE
      LET s == splay(m, RootSlot, Num(v))
      IN IF Compare(Num(v), s.heap[s.Root].Value) # 0 THEN s
         ELSE IF s.heap[s.Root].Left = Nil THEN
           [s EXCEPT !.Root = s.heap[s.Root].Right]
         ELSE
           LET a == splay(s, LeftSlot(s.Root), greatestValue)
               b == SetRight(a, a.heap[a.Root].Left, a.heap[a.Root].Right)
           IN [b EXCEPT !.Root = b.heap[b.Root].Left]

\* ---------------------------------------------------------------- the read-only calls

\* Faulty walk: one step to the left (an if where the code loops).
MutLeftmostOneStep(h, n) == IF h[n].Left # Nil THEN h[n].Left ELSE n

\* for n.Left != nil { n = n.Left }
RECURSIVE Leftmost(_, _)
Leftmost(h, n) == IF h[n].Left # Nil THEN Leftmost(h, h[n].Left) ELSE n

\* for n.Right != nil { n = n.Right }
RECURSIVE Rightmost(_, _)
Rightmost(h, n) == IF h[n].Right # Nil THEN Rightmost(h, h[n].Right) ELSE n

\* Faulty Min: nil is also returned when the root is itself the leftmost node.
MutMinValueNilAtRoot(m) ==
    IF m.Root = Nil \/ m.heap[m.Root].Left = Nil THEN NilValue
    ELSE m.heap[Leftmost(m.heap, m.Root)].Value

\* t.Min() and t.Max() of the interface version: nil on the empty tree.
MinValue(m) == IF m.Root = Nil THEN NilValue ELSE m.heap[Leftmost(m.heap, m.Root)].Value
MaxValue(m) == IF m.Root = Nil THEN NilValue ELSE m.heap[Rightmost(m.heap, m.Root)].Value

\* t.Min() and t.Max() of the generic version: the zero value of T on the empty tree.
MinValueT(m) == IF m.Root = Nil THEN ZeroValue ELSE m.heap[Leftmost(m.heap, m.Root)].Value
MaxValueT(m) == IF m.Root = Nil THEN ZeroValue ELSE m.heap[Rightmost(m.heap, m.Root)].Value

\* n.height()
RECURSIVE height(_, _)
height(h, n) ==
    IF n = Nil THEN 0
    ELSE LET h1 == height(h, h[n].Left)
             h2 == height(h, h[n].Right)
         IN IF h1 > h2 THEN 1 + h1 ELSE 1 + h2

\* n.Len()
RECURSIVE NodeLen(_, _)
NodeLen(h, n) ==
    IF n = Nil THEN 0 ELSE 1 + NodeLen(h, h[n].Left) + NodeLen(h, h[n].Right)

\* Faulty Iterate: the bool returned by the left subtree's walk is ignored.
RECURSIVE MutNodeIterateIgnoresLeft(_, _, _, _)
MutNodeIterateIgnoresLeft(h, n, f, calls) ==
    IF n = Nil THEN [ok |-> TRUE, calls |-> calls]
    ELSE
      LET l == IF h[n].Left # Nil THEN MutNodeIterateIgnoresLeft(h, h[n].Left, f, calls)
               ELSE [ok |-> TRUE, calls |-> calls]
          c == Append(l.calls, h[n].Value)
      IN IF ~f[h[n].Value] THEN [ok |-> FALSE, calls |-> c]
         ELSE IF h[n].Right # Nil THEN MutNodeIterateIgnoresLeft(h, h[n].Right, f, c)
         ELSE [ok |-> TRUE, calls |-> c]

\* n.Iterate(f), with `calls` the values f has been called on so far: the
\* bool it returns and the calls made when it returns.
RECURSIVE NodeIterate(_, _, _, _)
NodeIterate(h, n, f, calls) ==
    IF n = Nil THEN [ok |-> TRUE, calls |-> calls]
    ELSE
      LET l == IF h[n].Left # Nil THEN NodeIterate(h, h[n].Left, f, calls)
               ELSE [ok |-> TRUE, calls |-> calls]
      IN IF ~l.ok THEN [ok |-> FALSE, calls |-> l.calls]
         ELSE
           LET c == Append(l.calls, h[n].Value)
           IN IF ~f[h[n].Value] THEN [ok |-> FALSE, calls |-> c]
              ELSE IF h[n].Right # Nil THEN NodeIterate(h, h[n].Right, f, c)
              ELSE [ok |-> TRUE, calls |-> c]

\* The visit functions handed to Iterate: f[x] is what f returns on the value x.
Visitors == [Vals -> BOOLEAN]

\* ---------------------------------------------------------------- the state machine

Mem == [Root |-> Root, heap |-> heap]

Call(op, arg) == [op |-> op, arg |-> arg, present |-> FALSE, f |-> <<>>,
                  ret |-> 0, calls |-> <<>>]

Init ==
    /\ Root = Nil
    /\ heap = [n \in Nodes |-> FreeCell]
    /\ expected = [x \in Vals |-> 0]
    /\ last = Call("new", 0)

Insert(v) ==
    /\ Cardinality(Reachable(heap, Root)) < MaxNodes
    /\ LET m == Collect(InsertMem(Mem, v))
       IN /\ Root' = m.Root
          /\ heap' = m.heap
    /\ expected' = [expected EXCEPT ![v] = @ + 1]
    /\ last' = Call("Insert", v)

Delete(v) ==
    /\ LET m == Collect(DeleteMem(Mem, v))
       IN /\ Root' = m.Root
          /\ heap' = m.heap
    /\ expected' = [expected EXCEPT ![v] = IF @ > 0 THEN @ - 1 ELSE @]
    /\ last' = [Call("Delete", v) EXCEPT !.present = expected[v] > 0]

\* Faulty Min: the minimum is splayed to the root before it is returned.
MutMinSplays ==
    /\ LET m == splay(Mem, RootSlot, smallestValue)
       IN /\ Root' = m.Root
          /\ heap' = m.heap
          /\ last' = [Call("Min", 0) EXCEPT
                         !.ret = IF m.Root = Nil THEN NilValue ELSE m.heap[m.Root].Value]
    /\ UNCHANGED expected

Min ==
    /\ last' = [Call("Min", 0) EXCEPT !.ret = MinValue(Mem)]
    /\ UNCHANGED <<Root, heap, expected>>

Max ==
    /\ last' = [Call("Max", 0) EXCEPT !.ret = MaxValue(Mem)]
    /\ UNCHANGED <<Root, heap, expected>>

MinT ==
    /\ last' = [Call("MinT", 0) EXCEPT !.ret = MinValueT(Mem)]
    /\ UNCHANGED <<Root, heap, expected>>

MaxT ==
    /\ last' = [Call("MaxT", 0) EXCEPT !.ret = MaxValueT(Mem)]
    /\ UNCHANGED <<Root, heap, expected>>

Height ==
    /\ last' = [Call("Height", 0) EXCEPT !.ret = height(heap, Root)]
    /\ UNCHANGED <<Root, heap, expected>>

TreeLen ==
    /\ last' = [Call("Len", 0) EXCEPT !.ret = NodeLen(heap, Root)]
    /\ UNCHANGED <<Root, heap, expected>>

Iterate(f) ==
    /\ last' = [Call("Iterate", 0) EXCEPT !.f = f,
                                          !.calls = NodeIterate(heap, Root, f, <<>>).calls]
    /\ UNCHANGED <<Root, heap, expected>>

Next ==
    \/ \E v \in Vals : Insert(v)
    \/ \E v \in Vals : Delete(v)
    \/ Min
    \/ Max
    \/ MinT
    \/ MaxT
    \/ Height
    \/ TreeLen
    \/ \E f \in Visitors : Iterate(f)

Spec == Init /\ [][Next]_vars

\* The round trip: a run of Insert calls, then only Delete calls, each of a value
\* inserted and not yet deleted.
RTInsert(v) == last.op \in {"new", "Insert"} /\ Insert(v)
RTDelete(v) == expected[v] > 0 /\ Delete(v)

RTNext ==
    \/ \E v \in Vals : RTInsert(v)
    \/ \E v \in Vals : RTDelete(v)

SpecRoundTrip == Init /\ [][RTNext]_vars

\* ---------------------------------------------------------------- splay on any tree

\* The branch one call splay(root, v) takes on the memory m: the rotation it
\* ends with, or "none" when it returns without rotating.
Shape(m, root, v) ==
    IF Load(m, root) = Nil THEN "none"
    ELSE
      LET n == Load(m, root)
          comparison == Compare(v, m.heap[n].Value)
      IN IF comparison < 0 THEN
           IF m.heap[n].Left = Nil THEN "none"
           ELSE
             LET n1 == m.heap[n].Left
                 c1 == Compare(v, m.heap[n1].Value)
             IN IF c1 > 0 /\ m.heap[n1].Right # Nil THEN "zig-zag-left"
                ELSE IF c1 < 0 /\ m.heap[n1].Left # Nil THEN "zig-zig-left"
                ELSE "zig-left"
         ELSE IF comparison > 0 THEN
           IF m.heap[n].Right = Nil THEN "none"
           ELSE
             LET n1 == m.heap[n].Right
                 c1 == Compare(v, m.heap[n1].Value)
             IN IF c1 < 0 /\ m.heap[n1].Left # Nil THEN "zig-zag-right"
                ELSE IF c1 > 0 /\ m.heap[n1].Right # Nil THEN "zig-zig-right"
                ELSE "zig-right"
         ELSE "none"

\* Faulty recursion: the zig-zig cases recurse on the slot they were called on.
MutInnerSlotSame(m, root, v) ==
    LET n == Load(m, root)
        n1 == IF Compare(v, m.heap[n].Value) < 0 THEN m.heap[n].Left ELSE m.heap[n].Right
        s == Shape(m, root, v)
    IN IF s \in {"zig-zag-left", "zig-zig-right"} THEN RightSlot(n1)
       ELSE IF s = "zig-zig-left" THEN LeftSlot(n)
       ELSE LeftSlot(n1)

\* The slot of the recursive call made by a call that takes a zig-zag or
\* zig-zig branch: &n1.Right or &n1.Left.
InnerSlot(m, root, v) ==
    LET n == Load(m, root)
        n1 == IF Compare(v, m.heap[n].Value) < 0 THEN m.heap[n].Left ELSE m.heap[n].Right
        s == Shape(m, root, v)
    IN IF s \in {"zig-zag-left", "zig-zig-right"} THEN RightSlot(n1) ELSE LeftSlot(n1)

Recurses(s) == s \in {"zig-zag-left", "zig-zig-left", "zig-zag-right", "zig-zig-right"}

\* The nested calls of splay(root, v), outermost first: for each the node its
\* slot holds and the branch it takes.  A call recurses before it rotates, so
\* every nested call sees the links of m.  `fuel` bounds the nesting shown.
RECURSIVE SplayCalls(_, _, _, _)
SplayCalls(m, root, v, fuel) ==
    LET here == [node |-> Load(m, root), shape |-> Shape(m, root, v)]
    IN IF Recurses(here.shape) /\ fuel > 0
       THEN <<here>> \o SplayCalls(m, InnerSlot(m, root, v), v, fuel - 1)
       ELSE <<here>>

\* The keys splay is called with: the NumValues and the two sentinels.
Keys == {Num(x) : x \in Vals} \cup {greatestValue, smallestValue}

\* The trees of k nodes that hold values lo..hi in BST order, as the sequence of
\* their Node structs at the addresses base+1..base+k (in preorder).
RECURSIVE TreesAt(_, _, _, _)
TreesAt(k, lo, hi, base) ==
    IF k = 0 THEN {<<>>}
    ELSE UNION { UNION {
           { <<[Value |-> x,
                Left |-> IF i = 0 THEN Nil ELSE base + 2,
                Right |-> IF k - 1 - i = 0 THEN Nil ELSE base + 2 + i]>> \o l \o r :
               l \in TreesAt(i, lo, x, base + 1),
               r \in TreesAt(k - 1 - i, x, hi, base + 1 + i) }
           : i \in 0..(k - 1) } : x \in lo..hi }

\* Any BST-ordered tree of up to MaxNodes nodes: Tree.Root and the fields of
\* Node are exported, so a caller can hold a tree of any shape.
InitAnyTree ==
    /\ \E k \in 0..MaxNodes : \E t \in TreesAt(k, 0, MaxVal, 0) :
         /\ Root = (IF k = 0 THEN Nil ELSE 1)
         /\ heap = [n \in Nodes |-> IF n <= k THEN t[n] ELSE FreeCell]
    /\ expected = [x \in Vals |-> Cardinality({n \in Reachable(heap, Root) : heap[n].Value = x})]
    /\ last = Call("new", 0)

\* One call splay(&t.Root, k) on the tree drawn.  The call is recorded with
\* the node that was the root, whether a node equal to k existed, and the
\* nested calls made.
SplayCall(k) ==
    /\ last.op = "new"
    /\ LET m == splay(Mem, RootSlot, k)
       IN /\ Root' = m.Root
          /\ heap' = m.heap
    /\ last' = [Call("splay", k) EXCEPT
                   !.present = \E n \in Reachable(heap, Root) : Compare(k, heap[n].Value) = 0,
                   !.ret = Root,
                   !.calls = SplayCalls(Mem, RootSlot, k, MaxNodes)]
    /\ UNCHANGED expected

SplayNone(k) == Shape(Mem, RootSlot, k) = "none" /\ SplayCall(k)
SplayZigLeft(k) == Shape(Mem, RootSlot, k) = "zig-left" /\ SplayCall(k)
SplayZigZigLeft(k) == Shape(Mem, RootSlot, k) = "zig-zig-left" /\ SplayCall(k)
SplayZigZagLeft(k) == Shape(Mem, RootSlot, k) = "zig-zag-left" /\ SplayCall(k)
SplayZigRight(k) == Shape(Mem, RootSlot, k) = "zig-right" /\ SplayCall(k)
SplayZigZigRight(k) == Shape(Mem, RootSlot, k) = "zig-zig-right" /\ SplayCall(k)
SplayZigZagRight(k) == Shape(Mem, RootSlot, k) = "zig-zag-right" /\ SplayCall(k)

SplayNext ==
    \/ \E k \in Keys : SplayNone(k)
    \/ \E k \in Keys : SplayZigLeft(k)
    \/ \E k \in Keys : SplayZigZigLeft(k)
    \/ \E k \in Keys : SplayZigZagLeft(k)
    \/ \E k \in Keys : SplayZigRight(k)
    \/ \E k \in Keys : SplayZigZigRight(k)
    \/ \E k \in Keys : SplayZigZagRight(k)

SpecSplay == InitAnyTree /\ [][SplayNext]_vars

\* One Insert or Delete call on any BST-ordered tree.
OpInsert(v) == last.op = "new" /\ Insert(v)
OpDelete(v) == last.op = "new" /\ Delete(v)

OpNext ==
    \/ \E v \in Vals : OpInsert(v)
    \/ \E v \in Vals : OpDelete(v)

SpecOps == InitAnyTree /\ [][OpNext]_vars

\* ---------------------------------------------------------------- what the claims speak of

Live == Reachable(heap, Root)

\* The values of the subtree at n, left to right.
RECURSIVE InOrder(_, _)
InOrder(h, n) ==
    IF n = Nil THEN <<>>
    ELSE InOrder(h, h[n].Left) \o <<h[n].Value>> \o InOrder(h, h[n].Right)

NonDescending(s) == \A i \in 1..(Len(s) - 1) : NumCompare(s[i], s[i + 1]) <= 0

\* The number of nodes of the tree that hold x.
Count(x) == Cardinality({n \in Live : heap[n].Value = x})

RECURSIVE SumTo(_, _)
SumTo(c, x) == IF x < 0 THEN 0 ELSE c[x] + SumTo(c, x - 1)

LiveValues == {heap[n].Value : n \in Live}
Least(S) == CHOOSE x \in S : \A y \in S : x <= y
Greatest(S) == CHOOSE x \in S : \A y \in S : x >= y

ReadOps == {"Min", "Max", "MinT", "MaxT", "Height", "Len", "Iterate"}

\* C1: after any sequence of Insert and Delete calls, every value in a node's
\* left subtree is <= the node's value and every value in its right subtree is
\* >= it, and the in-order traversal is non-descending.
C1_BSTOrdering ==
    /\ \A n \in Live :
         /\ \A k \in Reachable(heap, heap[n].Left) :
              NumCompare(heap[k].Value, heap[n].Value) <= 0
         /\ \A k \in Reachable(heap, heap[n].Right) :
              NumCompare(heap[k].Value, heap[n].Value) >= 0
    /\ NonDescending(InOrder(heap, Root))

C1_Witness ==
    /\ last.op = "Delete" /\ last.present
    /\ NodeLen(heap, Root) >= 3
    /\ height(heap, Root) = 2
    /\ \E x \in Vals : Count(x) >= 2

\* C2: for every value x the number of nodes holding x is the number of
\* Insert(x) calls minus the Delete(x) calls made while x was present, and
\* Len() is the total of these counts.
C2_Multiset ==
    /\ \A x \in Vals : Count(x) = expected[x]
    /\ NodeLen(heap, Root) = SumTo(expected, MaxVal)
    /\ Len(InOrder(heap, Root)) = SumTo(expected, MaxVal)

C2_Witness ==
    /\ last.op = "Delete" /\ last.present
    /\ Count(last.arg) >= 1
    /\ \E x \in Vals : x # last.arg /\ Count(x) >= 1

\* C3 as stated: Delete(v) on a tree holding no value equal to v leaves Len(),
\* Height() and the in-order sequence unchanged.
C3_AbsentDeleteKeepsHeight ==
    [][(last'.op = "Delete" /\ Count(last'.arg) = 0)
        => /\ NodeLen(heap', Root') = NodeLen(heap, Root)
           /\ height(heap', Root') = height(heap, Root)
           /\ InOrder(heap', Root') = InOrder(heap, Root)]_vars

\* C3 as amended: Delete(v) on a tree holding no value equal to v leaves Len()
\* and the in-order sequence unchanged, and leaves the empty tree empty with
\* Height() 0; the tree is still splayed toward v, so the Height() of a
\* non-empty tree may change.
C3_AbsentDeleteKeepsValues ==
    [][(last'.op = "Delete" /\ Count(last'.arg) = 0)
        => /\ NodeLen(heap', Root') = NodeLen(heap, Root)
           /\ InOrder(heap', Root') = InOrder(heap, Root)
           /\ (Root = Nil => Root' = Nil /\ height(heap', Root') = 0)]_vars

C3_Witness ==
    /\ last.op = "Delete" /\ ~last.present
    /\ Count(last.arg) = 0
    /\ NodeLen(heap, Root) >= 3
    /\ heap[Root].Value # last.arg

\* C4: inserting n values from the empty tree and then deleting each inserted
\* value once, in any order, leaves the empty tree: Root nil, Len() 0, Height() 0.
C4_RoundTrip ==
    (last.op = "Delete" /\ \A x \in Vals : expected[x] = 0)
        => /\ Root = Nil
           /\ NodeLen(heap, Root) = 0
           /\ height(heap, Root) = 0

C4_Witness ==
    /\ last.op = "Delete" /\ last.present
    /\ \A x \in Vals : expected[x] = 0
    /\ Root = Nil

\* C5: on a non-empty tree Min() returns the minimum and Max() the maximum of
\* the values in the tree.
C5_MinMax ==
    Root # Nil =>
        /\ (last.op \in {"Min", "MinT"} => last.ret = Least(LiveValues))
        /\ (last.op \in {"Max", "MaxT"} => last.ret = Greatest(LiveValues))
        /\ MinValue(Mem) = Least(LiveValues)
        /\ MaxValue(Mem) = Greatest(LiveValues)

C5_Witness ==
    /\ last.op = "Min"
    /\ NodeLen(heap, Root) >= 3
    /\ heap[Root].Value # last.ret
    /\ last.ret # MaxValue(Mem)

\* C6 as stated: Min() and Max() return the empty indicator (nil in the
\* interface version, the zero value of T in the generic version) if and only
\* if the tree is empty.
C6_EmptyIndicatorIff ==
    /\ (last.op \in {"Min", "Max"} => (last.ret = NilValue <=> Root = Nil))
    /\ (last.op \in {"MinT", "MaxT"} => (last.ret = ZeroValue <=> Root = Nil))

\* C6 as amended: Min() and Max() return the empty indicator on the empty tree;
\* in the interface version the result is nil only on the empty tree; in the
\* generic version the result on a non-empty tree is the zero value of T exactly
\* when the minimum (maximum) stored value is itself the zero value.
C6_EmptyIndicator ==
    /\ (last.op \in {"Min", "Max"} => (last.ret = NilValue <=> Root = Nil))
    /\ (last.op \in {"MinT", "MaxT"} /\ Root = Nil => last.ret = ZeroValue)
    /\ (last.op = "MinT" /\ Root # Nil =>
            (last.ret = ZeroValue <=> Least(LiveValues) = ZeroValue))
    /\ (last.op = "MaxT" /\ Root # Nil =>
            (last.ret = ZeroValue <=> Greatest(LiveValues) = ZeroValue))

C6_Witness ==
    /\ last.op = "MinT"
    /\ Root # Nil
    /\ last.ret = ZeroValue
    /\ NodeLen(heap, Root) >= 2

\* The calls Iterate is to make on the in-order sequence s: the prefix of s up
\* to and including the first value on which f returns false, all of s if none.
Stops(s, f) == {i \in 1..Len(s) : ~f[s[i]]}
VisitedPrefix(s, f) ==
    IF Stops(s, f) = {} THEN s ELSE SubSeq(s, 1, Least(Stops(s, f)))

\* C7: Iterate(f) calls f on the values in in-order, non-descending sequence,
\* and the calls made are exactly the prefix up to and including the first
\* value on which f returns false (every value once if there is none).
C7_Iterate ==
    last.op = "Iterate" =>
        /\ last.calls = VisitedPrefix(InOrder(heap, Root), last.f)
        /\ NonDescending(last.calls)
        /\ \A i \in 1..(Len(last.calls) - 1) : last.f[last.calls[i]]

C7_Witness ==
    /\ last.op = "Iterate"
    /\ Len(last.calls) >= 2
    /\ Len(last.calls) < NodeLen(heap, Root)
    /\ ~last.f[last.calls[Len(last.calls)]]
    /\ heap[Root].Left # Nil

\* The links that point at node c: the root slot, and the child links of live nodes.
Owners(c) ==
    (IF Root = c THEN {RootSlot} ELSE {})
    \cup {LeftSlot(n) : n \in {k \in Live : heap[k].Left = c}}
    \cup {RightSlot(n) : n \in {k \in Live : heap[k].Right = c}}

\* C8: after every Insert and Delete the nodes reachable from Root form a simple
\* binary tree: no node is reachable from itself, and every node is owned by
\* exactly one link.
C8_SimpleTree ==
    \A n \in Live :
        /\ n \notin Reachable(heap, heap[n].Left)
        /\ n \notin Reachable(heap, heap[n].Right)
        /\ Cardinality(Owners(n)) = 1

C8_Witness ==
    /\ last.op = "Insert"
    /\ Cardinality(Live) = MaxNodes
    /\ heap[Root].Left # Nil
    /\ heap[Root].Right # Nil
    /\ heap[heap[Root].Right].Value = last.arg

\* C9: Min(), Max(), Height(), Len() and Iterate() leave the root, every node's
\* value and every left and right link as they were.
C9_ReadOnly ==
    [][last'.op \in ReadOps => Root' = Root /\ heap' = heap]_vars

C9_Witness ==
    /\ last.op \in {"Min", "MinT"}
    /\ Root # Nil
    /\ heap[Root].Left # Nil
    /\ heap[heap[Root].Left].Left # Nil

\* The nodes of the subtree at n, left to right.
RECURSIVE InOrderNodes(_, _)
InOrderNodes(h, n) ==
    IF n = Nil THEN <<>>
    ELSE InOrderNodes(h, h[n].Left) \o <<n>> \o InOrderNodes(h, h[n].Right)

\* The last node of the plain BST search for key k from node n.
RECURSIVE SearchEnd(_, _, _)
SearchEnd(h, n, k) ==
    IF Compare(k, h[n].Value) < 0 /\ h[n].Left # Nil THEN SearchEnd(h, h[n].Left, k)
    ELSE IF Compare(k, h[n].Value) > 0 /\ h[n].Right # Nil THEN SearchEnd(h, h[n].Right, k)
    ELSE n

\* The values among S that the key k is above, and those it is below.
Below(S, k) == {x \in S : Compare(k, x) > 0}
Above(S, k) == {x \in S : Compare(k, x) < 0}

\* C11: on a BST-ordered tree in which some node holds a value equal to the
\* key, the root holds a value equal to the key after splay(root, v); splay on
\* an empty slot changes nothing.
C11_SplayFinds ==
    [][last'.op = "splay"
        => /\ (last'.present => Compare(last'.arg, heap'[Root'].Value) = 0)
           /\ (Root = Nil => Root' = Nil /\ heap' = heap)]_vars

C11_Witness ==
    /\ last.op = "splay" /\ last.present
    /\ Len(last.calls) >= 2
    /\ last.ret # Root
    /\ Count(last.arg.n) >= 2
    /\ heap[Root].Value = last.arg.n

\* C12: on a BST-ordered tree with no node equal to the key, the root after
\* splay(root, v) is the last node of the BST search path for v in the tree as
\* it was; its value is the greatest value below v or the least value above
\* v, with every value of its left subtree below v when v is below the root
\* and every value of its right subtree above v when v is above the root.
C12_SplayNearest ==
    [][(last'.op = "splay" /\ ~last'.present /\ Root # Nil)
        => LET k == last'.arg
               r == heap'[Root']
               S == {heap'[n].Value : n \in Reachable(heap', Root')}
           IN /\ Root' = SearchEnd(heap, Root, k)
              /\ \/ Below(S, k) # {} /\ r.Value = Greatest(Below(S, k))
                 \/ Above(S, k) # {} /\ r.Value = Least(Above(S, k))
              /\ (Compare(k, r.Value) < 0 =>
                    \A n \in Reachable(heap', r.Left) : Compare(k, heap'[n].Value) > 0)
              /\ (Compare(k, r.Value) > 0 =>
                    \A n \in Reachable(heap', r.Right) : Compare(k, heap'[n].Value) < 0)]_vars

C12_Witness ==
    /\ last.op = "splay" /\ ~last.present
    /\ last.arg.kind = "NumValue"
    /\ Len(last.calls) >= 2
    /\ heap[Root].Left # Nil
    /\ heap[Root].Right # Nil
    /\ heap[Root].Value > last.arg.n

\* C13: splay(root, v) only restructures: in each rotation case the nodes
\* reachable from the root, the value each holds and the order of the nodes in
\* the in-order sequence are the same after the call as before it.
C13_SplayRestructures ==
    [][last'.op = "splay"
        => /\ Reachable(heap', Root') = Reachable(heap, Root)
           /\ InOrderNodes(heap', Root') = InOrderNodes(heap, Root)
           /\ InOrder(heap', Root') = InOrder(heap, Root)
           /\ \A n \in Nodes : heap'[n].Value = heap[n].Value]_vars

C13_Witness ==
    /\ last.op = "splay"
    /\ last.arg.kind = "greatestValue"
    /\ Len(last.calls) = 2
    /\ last.calls[1].shape = "zig-zig-right"
    /\ last.calls[2].shape = "zig-right"
    /\ Cardinality(Live) = 4

\* The node the innermost of the nested calls leaves in its slot.
Settled(h, c) ==
    IF c.shape = "zig-left" THEN h[c.node].Left
    ELSE IF c.shape = "zig-right" THEN h[c.node].Right
    ELSE c.node

Grandchildren(h, n) ==
    {h[c].Left : c \in {h[n].Left, h[n].Right} \ {Nil}}
    \cup {h[c].Right : c \in {h[n].Left, h[n].Right} \ {Nil}}

\* C17: every nested call of splay is made on a grandchild of the node the
\* calling call was made on, a strictly smaller subtree, so the nesting ends
\* by itself and is never deeper than the height of the tree.
C17_SplayTerminates ==
    [][last'.op = "splay"
        => LET c == last'.calls
           IN /\ \A i \in 1..(Len(c) - 1) :
                   /\ c[i + 1].node # Nil
                   /\ c[i + 1].node \in Grandchildren(heap, c[i].node)
                   /\ NodeLen(heap, c[i + 1].node) < NodeLen(heap, c[i].node)
              /\ ~Recurses(c[Len(c)].shape)
              /\ Len(c) - 1 <= height(heap, Root)
              /\ (Root # Nil => Len(c) <= height(heap, Root))
              /\ Root' = Settled(heap, c[Len(c)])]_vars

C17_Witness ==
    /\ last.op = "splay"
    /\ Len(last.calls) = 2
    /\ last.calls[1].shape = "zig-zag-left"
    /\ last.calls[2].shape # "none"

\* The place of node n in the sequence s of nodes, and s without its i-th node.
IndexOf(s, n) == CHOOSE i \in 1..Len(s) : s[i] = n
RemoveAt(s, i) == SubSeq(s, 1, i - 1) \o SubSeq(s, i + 1, Len(s))

\* C14: in Delete(v), when the splayed root equals v and has a left child, the
\* splay of the left subtree toward the greatest sentinel leaves at its top the
\* maximum of that subtree, without a right child; the tree after the call
\* holds the old nodes but the deleted root, in their order, and its root is
\* the in-order predecessor of the deleted node.
C14_DeleteMerges ==
    [][last'.op = "Delete"
        => LET v == last'.arg
               s == splay(Mem, RootSlot, Num(v))
           IN (Root # Nil /\ Compare(Num(v), s.heap[s.Root].Value) = 0
                          /\ s.heap[s.Root].Left # Nil)
              => LET a == splay(s, LeftSlot(s.Root), greatestValue)
                     l == a.heap[a.Root].Left
                     d == DeleteMem(Mem, v)
                     before == InOrderNodes(s.heap, s.Root)
                     i == IndexOf(before, s.Root)
                 IN /\ a.Root = s.Root
                    /\ a.heap[l].Right = Nil
                    /\ a.heap[l].Value =
                         Greatest({s.heap[n].Value : n \in Reachable(s.heap, s.heap[s.Root].Left)})
                    /\ a.heap[a.Root].Right = s.heap[s.Root].Right
                    /\ d.Root = l
                    /\ i > 1 /\ l = before[i - 1]
                    /\ Reachable(d.heap, d.Root) = Reachable(s.heap, s.Root) \ {s.Root}
                    /\ InOrderNodes(d.heap, d.Root) = RemoveAt(before, i)
                    /\ InOrder(heap', Root') = InOrder(d.heap, d.Root)
                    /\ NodeLen(heap', Root') = NodeLen(heap, Root) - 1]_vars

C14_Witness ==
    /\ last.op = "Delete" /\ last.present
    /\ Root # Nil
    /\ heap[Root].Value < last.arg
    /\ heap[Root].Left # Nil
    /\ heap[Root].Right # Nil

\* C15: after Insert(v) the root is the newly created node and holds v (the
\* sole node if the tree was empty); when the tree already held a value equal
\* to v, the equal node splay brought to the root is the new root's right
\* child, its left link is nil, and the new node comes immediately before it
\* in the in-order sequence.
C15_InsertRoot ==
    [][last'.op = "Insert"
        => LET v == last'.arg
               s == splay(Mem, RootSlot, Num(v))
               ins == InsertMem(Mem, v)
               after == InOrderNodes(ins.heap, ins.Root)
               r == heap'[Root'].Right
           IN /\ Root' # Nil /\ heap'[Root'].Value = v
              /\ ins.Root \notin Reachable(heap, Root)
              /\ Reachable(ins.heap, ins.Root) = Reachable(heap, Root) \cup {ins.Root}
              /\ NodeLen(heap', Root') = NodeLen(heap, Root) + 1
              /\ (Root = Nil => heap'[Root'] = [Value |-> v, Left |-> Nil, Right |-> Nil])
              /\ (Count(v) > 0 =>
                    /\ s.heap[s.Root].Value = v
                    /\ ins.heap[ins.Root].Right = s.Root
                    /\ ins.heap[s.Root].Left = Nil
                    /\ after[IndexOf(after, ins.Root) + 1] = s.Root
                    /\ r # Nil /\ heap'[r].Value = v /\ heap'[r].Left = Nil)]_vars

C15_Witness ==
    /\ last.op = "Insert"
    /\ Count(last.arg) >= 2
    /\ heap[Root].Left # Nil
    /\ heap[heap[Root].Right].Value = last.arg
    /\ heap[heap[Root].Right].Right # Nil

EmptyMem == [Root |-> Nil, heap |-> [n \in Nodes |-> FreeCell]]

\* Insert 87, 800, 900 into the empty tree, then Delete 87.
LeftmostDeletion == DeleteMem(InsertMem(InsertMem(InsertMem(EmptyMem, 87), 800), 900), 87)

\* C16 as stated: Delete(v) with v the minimum value of the tree makes the old
\* root's right child the new root (nil if v was the only node) and leaves
\* exactly the other values, in order.
C16_DeleteMinTakesRight ==
    [][(last'.op = "Delete" /\ Root # Nil /\ last'.arg = Least(LiveValues))
        => LET s == splay(Mem, RootSlot, Num(last'.arg))
           IN /\ DeleteMem(Mem, last'.arg).Root = s.heap[s.Root].Right
              /\ InOrder(heap', Root') = Tail(InOrder(heap, Root))]_vars

\* C16 as amended: Delete(v) with v the minimum value of the tree leaves exactly
\* the other values, in order.  When the splayed root has no left child, as it
\* always has when v occurs once, the old root's right child is the new root
\* (nil if v was the only node); when v occurs more than once the splayed root
\* may have a left child, and the new root then comes from the left subtree.
\* Insert 87, 800, 900 then Delete 87 leaves [800, 900] with Len() 2.
C16_DeleteMin ==
    [][/\ (last'.op = "Delete" /\ Root # Nil /\ last'.arg = Least(LiveValues))
           => LET v == last'.arg
                  s == splay(Mem, RootSlot, Num(v))
                  d == DeleteMem(Mem, v)
              IN /\ s.heap[s.Root].Value = v
                 /\ InOrder(heap', Root') = Tail(InOrder(heap, Root))
                 /\ (Count(v) = 1 => s.heap[s.Root].Left = Nil)
                 /\ (s.heap[s.Root].Left = Nil =>
                       /\ d.Root = s.heap[s.Root].Right
                       /\ Reachable(d.heap, d.Root) = Reachable(s.heap, s.Root) \ {s.Root}
                       /\ (NodeLen(heap, Root) = 1 => Root' = Nil))
                 /\ (s.heap[s.Root].Left # Nil =>
                       d.Root \in Reachable(s.heap, s.heap[s.Root].Left))
       /\ InOrder(LeftmostDeletion.heap, LeftmostDeletion.Root) = <<800, 900>>
       /\ NodeLen(LeftmostDeletion.heap, LeftmostDeletion.Root) = 2]_vars

C16_Witness ==
    /\ last.op = "Delete" /\ last.present
    /\ NodeLen(heap, Root) >= 2
    /\ \A x \in LiveValues : x > last.arg
    /\ heap[Root].Left = Nil

====
